---- MODULE Spec2Model ----
(***************************************************************************)
(* Model of the price-driven device scheduler.                             *)
(*                                                                         *)
(*   src/price_info.py  efficient_timeframes: price series -> windows      *)
(*   src/main.py        DeviceScheduler: price refresh, reconciliation     *)
(*   src/web_app.py     the configuration maps the scheduler reads         *)
(*                                                                         *)
(* Time is counted in minutes.  A price sample is a record                 *)
(* [timestamp, price]; a decimal that is not an integer (a mean, a median, *)
(* a threshold) is an exact fraction [num, den] with den > 0.              *)
(***************************************************************************)
EXTENDS Integers, Sequences, FiniteSets, TLC

\* ------------------------------------------------------------------ bounds

\* Number of 15-minute slots of the price feed a series may cover.
MaxSlots == 4

\* Number of 15-minute slots a fetched series may cover while the whole
\* scheduler runs (Spec), and while update_prices runs alone (RefreshSpec).
FeedSlots == 1

RefreshSlots == 2

\* Number of 15-minute steps the wall clock may advance.
MaxClock == 2

\* Number of requests the web layer serves.
MaxRequests == 2

\* ------------------------------------------------------- program constants

\* timedelta(minutes=15) and len(frame_prices) * 15 in efficient_timeframes.
SamplingMinutes == 15

\* self.max_retries in DeviceScheduler.__init__.
max_retries == 3

\* self.retry_delay in DeviceScheduler.__init__, in seconds.
retry_delay == 2

\* DEFAULT_THRESHOLD_MULTIPLIER = 1.5 in web_app.py.
DEFAULT_THRESHOLD_MULTIPLIER == [num |-> 3, den |-> 2]

\* ---------------------------------------------------------------- inputs

\* Prices in senti/kWh that the feed may deliver for a slot.
Prices == {5, 8, 10, 12}

\* Thresholds handed to efficient_timeframes: 5, 8, 10.5 and 15.
Thresholds == {[num |-> n, den |-> 2] : n \in {10, 16, 21, 30}}

\* Values of the min_duration_minutes argument (0 is the default).
MinDurations == {0, 30}

\* The host's time zone: "utc" has no clock change in the horizon, "dst" puts
\* the clocks back one hour at FallBackAt (the end of summer time).
TimeZones == {"utc", "dst"}

FallBackAt == 2 * SamplingMinutes

FallBackShift == 4 * SamplingMinutes

\* Device names, in the order the configuration file lists them, and the
\* address of each device's plug.
DeviceOrder == <<"boiler", "heater">>

Names == {DeviceOrder[k] : k \in 1..Len(DeviceOrder)}

IpOf(name) == IF name = "boiler" THEN "10.0.0.1" ELSE "10.0.0.2"

Ips == {IpOf(name) : name \in Names}

\* Threshold configurations a device may carry: fixed 8 senti/kWh, or 1.5 x
\* the median.
ThresholdConfigs ==
    {[type |-> "fixed", value |-> [num |-> 8, den |-> 1]],
     [type |-> "multiplier", value |-> [num |-> 3, den |-> 2]]}

\* Optional[bool]: the forced state of a device, the state read from a plug.
OptionalBool == {"None", "True", "False"}

\* Prices a series fetched by update_prices may carry.
FeedPrices == {2, 10}

VARIABLES
    tz,                     \* the host's time zone
    prices,                 \* efficient_timeframes: the prices argument
    threshold_price,        \* efficient_timeframes: the threshold argument
    min_duration_minutes,   \* efficient_timeframes: the minimum duration
    all_timeframes,         \* efficient_timeframes: the returned list
    seg_pc,                 \* "call" before the call, "returned" after it
    clock,                  \* the wall clock, as a timestamp
    plug_on,                \* the plugs: address -> whether the plug is on
    devices,                \* web_app.devices: name -> address
    device_thresholds,      \* web_app.device_thresholds: name -> {type, value}
    forced_states,          \* web_app.forced_states: name -> Optional[bool]
    price_timeframes,       \* scheduler.price_timeframes: name -> windows
    last_prices,            \* scheduler.last_prices (<<>> for None)
    upd,                    \* who calls update_prices next: "main", "first", "sleep"
    threshold_log,          \* per device, what the last refresh resolved
    refresh_log,            \* what the last call of update_prices fetched, where
                            \* the calls are followed on their own (RefreshSpec)
    pass,                   \* manage_devices in device_control_loop: pc and locals
    web_pass,               \* manage_devices as submitted by the web layer: pc and locals
    requests,               \* number of requests the web layer has served
    config_history,         \* per device, the pairs (address, forced state) that
                            \* have been its configuration at some instant
    job,                    \* update_prices as the web thread sees it advance
    status,                 \* per device, what get_status has read of the cache
    pass_log                \* per device of the running pass: the forced state read,
                            \* the desired state, whether the windows were consulted,
                            \* what get_device_state returned after how many failed
                            \* attempts, the set_device_state calls made

seg_vars == <<prices, threshold_price, min_duration_minutes, all_timeframes, seg_pc>>

web_vars == <<web_pass, requests, config_history, job, status>>

config_vars == <<devices, device_thresholds, forced_states, web_vars>>

refresh_vars == <<price_timeframes, last_prices, upd, threshold_log, refresh_log>>

pass_vars == <<pass, pass_log>>

vars == <<tz, seg_vars, clock, plug_on, config_vars, refresh_vars, pass_vars>>

\* ------------------------------------------------------------ price series

\* The k-th smallest element of a finite set of integers.
NthSmallest(S, k) == CHOOSE s \in S : Cardinality({q \in S : q < s}) = k - 1

\* The series with one sample per slot of S, priced by f, sorted by timestamp.
SeriesFrom(S, f) ==
    [k \in 1..Cardinality(S) |->
        [timestamp |-> NthSmallest(S, k) * SamplingMinutes,
         price     |-> f[NthSmallest(S, k)]]]

\* Every series over the first n slots: sorted by timestamp, no duplicate
\* timestamps, samples possibly missing.
SeriesOver(n, values) ==
    UNION {{SeriesFrom(S, f) : f \in [S -> values]} : S \in SUBSET (0..(n - 1))}

\* ------------------------------------------------------------ price_info.py

\* datetime.fromtimestamp: the naive local time of an instant.
fromtimestamp(timestamp) ==
    IF tz = "dst" /\ timestamp >= FallBackAt
    THEN timestamp - FallBackShift
    ELSE timestamp

RECURSIVE SumSeq(_)
SumSeq(s) == IF s = <<>> THEN 0 ELSE Head(s) + SumSeq(Tail(s))

\* statistics.mean of a non-empty list, as an exact fraction.
mean(values) == [num |-> SumSeq(values), den |-> Len(values)]

\* Faulty variant of is_cheap: a price at the threshold counts as cheap (<=).
is_cheap_inclusive(p, threshold) == p.price * threshold.den <= threshold.num

\* p['price'] < threshold (price_info.py line 90).
is_cheap(p, threshold) == p.price * threshold.den < threshold.num

\* The inner while loop: the first index after the run of cheap slots from i.
RECURSIVE collect(_, _, _)
collect(ps, threshold, i) ==
    IF i <= Len(ps) /\ is_cheap(ps[i], threshold)
    THEN collect(ps, threshold, i + 1)
    ELSE i

\* Faulty variant of frame_end: the sampling interval is not added to the last slot.
frame_end_at_last_slot(ps, last) == fromtimestamp(ps[last].timestamp)

\* end_time of the frame whose last slot is ps[last].
frame_end(ps, last) == fromtimestamp(ps[last].timestamp) + SamplingMinutes

\* The tuple appended for the frame ps[start_idx .. i-1].
timeframe(ps, start_idx, i) ==
    LET frame_prices == [k \in 1..(i - start_idx) |-> ps[start_idx + k - 1].price]
    IN [start    |-> fromtimestamp(ps[start_idx].timestamp),
        end      |-> frame_end(ps, i - 1),
        avg      |-> mean(frame_prices),
        duration |-> Len(frame_prices) * SamplingMinutes]

\* The outer while loop from index i with the frames found so far.
\* Faulty variant of scan: a frame of exactly the minimum duration is skipped.
RECURSIVE scan_above_minimum(_, _, _, _, _)
scan_above_minimum(ps, threshold, min_minutes, i, found) ==
    IF i > Len(ps) THEN found
    ELSE IF is_cheap(ps[i], threshold)
         THEN LET j  == collect(ps, threshold, i)
                  tf == timeframe(ps, i, j)
              IN scan_above_minimum(ps, threshold, min_minutes, j,
                      IF tf.duration > min_minutes THEN Append(found, tf) ELSE found)
         ELSE scan_above_minimum(ps, threshold, min_minutes, i + 1, found)

RECURSIVE scan(_, _, _, _, _)
scan(ps, threshold, min_minutes, i, found) ==
    IF i > Len(ps) THEN found
    ELSE IF is_cheap(ps[i], threshold)
         THEN LET j  == collect(ps, threshold, i)
                  tf == timeframe(ps, i, j)
              IN scan(ps, threshold, min_minutes, j,
                      IF tf.duration >= min_minutes THEN Append(found, tf) ELSE found)
         ELSE scan(ps, threshold, min_minutes, i + 1, found)

efficient_timeframes(ps, threshold, min_minutes) ==
    IF ps = <<>> THEN <<>> ELSE scan(ps, threshold, min_minutes, 1, <<>>)

\* ------------------------------------------------------------------ main.py

\* statistics.median: the middle of the sorted data, or the average of the two
\* middle values of data of even length.
RECURSIVE insert(_, _)
insert(x, sorted) ==
    IF sorted = <<>> THEN <<x>>
    ELSE IF x <= Head(sorted) THEN <<x>> \o sorted
         ELSE <<Head(sorted)>> \o insert(x, Tail(sorted))

RECURSIVE sorted(_)
sorted(values) == IF values = <<>> THEN <<>> ELSE insert(Head(values), sorted(Tail(values)))

\* Faulty variant of median: the upper middle value of data of even length.
median_upper_middle(values) ==
    LET data == sorted(values)
    IN [num |-> data[(Len(data) \div 2) + 1], den |-> 1]

median(values) ==
    LET data == sorted(values)
        n    == Len(data)
        i    == n \div 2
    IN IF n % 2 = 1
       THEN [num |-> data[i + 1], den |-> 1]
       ELSE [num |-> data[i] + data[i + 1], den |-> 2]

\* The threshold configuration calculate_threshold_price works from.
threshold_config_of(device_name) ==
    IF device_name \notin DOMAIN device_thresholds
    THEN [type |-> "multiplier", value |-> DEFAULT_THRESHOLD_MULTIPLIER]
    ELSE device_thresholds[device_name]

calculate_threshold_price(device_name, median_price) ==
    LET threshold_config == threshold_config_of(device_name)
    IN IF threshold_config.type = "fixed"
       THEN threshold_config.value
       ELSE [num |-> median_price.num * threshold_config.value.num,
             den |-> median_price.den * threshold_config.value.den]

\* Faulty variant of should_be_on_for_device: the end of a window is inclusive.
should_be_on_until_end(device_name, current_time) ==
    LET timeframes == IF device_name \in DOMAIN price_timeframes
                      THEN price_timeframes[device_name]
                      ELSE <<>>
    IN \E k \in 1..Len(timeframes) :
          timeframes[k].start <= current_time /\ current_time <= timeframes[k].end

should_be_on_for_device(device_name, current_time) ==
    LET timeframes == IF device_name \in DOMAIN price_timeframes
                      THEN price_timeframes[device_name]
                      ELSE <<>>
    IN \E k \in 1..Len(timeframes) :
          timeframes[k].start <= current_time /\ current_time < timeframes[k].end

\* Faulty variant of target_state_of: a favorable window wins over a forced state.
target_state_windows_first(forced_state, name, current_time) ==
    [state     |-> \/ forced_state = "True"
                   \/ \E k \in 1..Len(IF name \in DOMAIN price_timeframes
                                        THEN price_timeframes[name] ELSE <<>>) :
                          /\ price_timeframes[name][k].start <= current_time
                          /\ current_time < price_timeframes[name][k].end,
     consulted |-> TRUE]

\* manage_devices lines 160-165: the target state of a device, and whether
\* should_be_on_for_device was called for it.
target_state_of(forced_state, name, current_time) ==
    IF forced_state # "None"
    THEN [state |-> forced_state = "True", consulted |-> FALSE]
    ELSE [state |-> should_be_on_for_device(name, current_time), consulted |-> TRUE]

\* Faulty variant of correction: without the check for None, which reads as off.
correction_without_none_check(target_state, is_on) ==
    IF target_state /\ is_on # "True" THEN "on"
    ELSE IF ~target_state /\ is_on = "True" THEN "off"
    ELSE "keep"

\* Faulty variant of correction: a plug that is on is never switched off.
correction_only_on(target_state, is_on) ==
    IF is_on = "None" THEN "skip"
    ELSE IF target_state /\ is_on = "False" THEN "on"
    ELSE "keep"

\* Faulty variant of correction: the plug is commanded whatever state was read.
correction_unconditional(target_state, is_on) ==
    IF is_on = "None" THEN "skip"
    ELSE IF target_state THEN "on"
    ELSE "off"

\* manage_devices lines 169-175: what follows the read of the plug: "skip" the
\* device, switch it "on" or "off", or "keep" it as it is.
correction(target_state, is_on) ==
    IF is_on = "None" THEN "skip"
    ELSE IF target_state /\ is_on = "False" THEN "on"
    ELSE IF ~target_state /\ is_on = "True" THEN "off"
    ELSE "keep"

\* The configured names in the order the dictionary iterates them.
RECURSIVE keys_of(_, _)
keys_of(d, order) ==
    IF order = <<>> THEN <<>>
    ELSE IF Head(order) \in DOMAIN d
         THEN <<Head(order)>> \o keys_of(d, Tail(order))
         ELSE keys_of(d, Tail(order))

\* ------------------------------------------------- update_prices, the refresh

\* Faulty variant of timeframes_for: the entries of the cache are updated in
\* place, so that the windows of a deleted device stay.
timeframes_for_keeping_old(fetched, median_price) ==
    [device_name \in DOMAIN devices \cup DOMAIN price_timeframes |->
        IF device_name \in DOMAIN devices
        THEN efficient_timeframes(fetched,
                                  calculate_threshold_price(device_name, median_price), 0)
        ELSE price_timeframes[device_name]]

\* update_prices lines 56-62: the windows of every configured device, from
\* the fetched series and its median.
timeframes_for(fetched, median_price) ==
    [device_name \in DOMAIN devices |->
        efficient_timeframes(fetched,
                             calculate_threshold_price(device_name, median_price), 0)]

\* The event loop can run update_prices: no manage_devices is running, or the
\* running one is suspended in an await.  The first await of a device's visit
\* stands for all the awaits of that visit: update_prices reads no state of
\* the pass and the pass reads price_timeframes only as a visit begins, so a
\* refresh later in the visit leads to the same visits.
refresh_can_run ==
    \/ pass.pc = "sleep"
    \/ pass.pc = "get" /\ pass.attempt = 0

\* update_prices has returned to its caller: main goes on to start the two
\* loops, of which price_update_loop calls update_prices at once ("first");
\* the loop goes to sleep for four hours ("sleep").
upd_returned == IF upd = "main" THEN "first" ELSE "sleep"

\* Faulty variant of update_prices: the cache is replaced before the fetched
\* series is looked at.
update_prices_unguarded(fetched) ==
    /\ refresh_can_run
    /\ last_prices' = fetched
    /\ price_timeframes' =
          IF fetched # <<>>
          THEN timeframes_for(fetched, median([k \in 1..Len(fetched) |-> fetched[k].price]))
          ELSE <<>>
    /\ threshold_log' = threshold_log
    /\ upd' = upd_returned
    /\ UNCHANGED <<tz, seg_vars, clock, plug_on, config_vars, pass_vars>>

\* update_prices is called: by main, by price_update_loop as it starts, or by
\* price_update_loop as it wakes up after four hours; fetch_electricity_prices
\* returns fetched, which is empty after a failed request (price_info.py
\* lines 38-40) and when the feed has no prices.  Lines 44-74: an empty
\* series is logged as a failure and changes nothing.
update_prices(fetched) ==
    /\ refresh_can_run
    /\ IF fetched # <<>>
       THEN LET median_price == median([k \in 1..Len(fetched) |-> fetched[k].price])
            IN /\ last_prices' = fetched
               /\ price_timeframes' = timeframes_for(fetched, median_price)
               /\ threshold_log' =
                     [device_name \in DOMAIN devices |->
                         [config    |-> threshold_config_of(device_name),
                          median    |-> median_price,
                          threshold |-> calculate_threshold_price(device_name, median_price)]]
       ELSE UNCHANGED <<last_prices, price_timeframes, threshold_log>>
    /\ upd' = upd_returned
    /\ UNCHANGED <<tz, seg_vars, clock, plug_on, config_vars, pass_vars>>

\* update_prices is called and fetch_electricity_prices returns no prices.
RefreshFetchFailed ==
    /\ update_prices(<<>>)
    /\ UNCHANGED refresh_log

\* update_prices is called and fetch_electricity_prices returns a series of
\* feed.
Refresh(feed) ==
    \E fetched \in feed \ {<<>>} : update_prices(fetched)

RefreshFetched ==
    /\ Refresh(SeriesOver(FeedSlots, FeedPrices))
    /\ UNCHANGED refresh_log

\* The same calls followed on their own, on longer series, with what was
\* fetched on record.
RefreshFetchFailedLong ==
    /\ update_prices(<<>>)
    /\ refresh_log' = "nothing"

RefreshFetchedLong ==
    /\ Refresh(SeriesOver(RefreshSlots, FeedPrices))
    /\ refresh_log' = "prices"

\* --------------------------------------------- manage_devices, the reconciliation

PassIdle ==
    [pc |-> "sleep", current_time |-> 0, remaining |-> <<>>, name |-> "", ip |-> "",
     forced_state |-> "None", target_state |-> FALSE,
     is_on |-> "None", attempt |-> 0, turn_on |-> FALSE, waits |-> <<>>]

\* Faulty variant of wait_time: the same delay before every attempt.
wait_time_constant(attempt) == retry_delay

\* wait_time = self.retry_delay * (2 ** attempt), lines 113 and 137.
wait_time(attempt) == retry_delay * (2 ^ attempt)

\* The log of a device no pass has visited yet.
FreshLog ==
    [forced |-> "None", desired |-> "?", consulted |-> FALSE,
     read |-> "?", failed |-> 0, read_waits |-> <<>>,
     sets |-> <<>>, written |-> "?", exhausted_before |-> FALSE]

\* What is kept of a pass for the record when the passes are followed one
\* after the other (ControlSpec): the devices whose set_device_state had
\* returned False.  No code reads it.
kept_of(log) ==
    [name \in {n \in DOMAIN log : log[n].written = "False"} |->
        [FreshLog EXCEPT !.written = "False"]]

\* The logs a pass starts with: fresh, with the record of the pass before.
fresh_logs(kept) ==
    [name \in DOMAIN devices |->
        [FreshLog EXCEPT !.exhausted_before = (name \in DOMAIN kept)]]

\* set_device_state has returned: True after a successful attempt, False
\* after the last failed one.
after_write(p, log, returned) ==
    [log EXCEPT ![p.name].written = returned]

\* The devices of the snapshot still to visit, from the first one that is
\* still configured (manage_devices lines 152-155).
RECURSIVE still_configured(_)
still_configured(remaining) ==
    IF remaining = <<>> THEN <<>>
    ELSE IF Head(remaining)[1] \in DOMAIN devices
         THEN remaining
         ELSE still_configured(Tail(remaining))

\* The loop over the snapshot goes on with the entries in remaining, up to
\* the first await of get_device_state (lines 152-167), or manage_devices
\* returns and device_control_loop sleeps.
visit_next(p, log, remaining) ==
    LET rest == still_configured(remaining)
    IN IF rest = <<>>
       THEN [pass |-> [PassIdle EXCEPT !.pc = "returned"], log |-> log]
       ELSE LET name         == Head(rest)[1]
                ip           == Head(rest)[2]
                forced_state == IF name \in DOMAIN forced_states
                                THEN forced_states[name]
                                ELSE "None"
                target       == target_state_of(forced_state, name, p.current_time)
            IN [pass |-> [pc |-> "get", current_time |-> p.current_time,
                          remaining |-> Tail(rest), name |-> name, ip |-> ip,
                          forced_state |-> forced_state, target_state |-> target.state,
                          is_on |-> "None", attempt |-> 0, turn_on |-> FALSE,
                          waits |-> <<>>],
                log |-> [log EXCEPT ![name].forced = forced_state,
                                    ![name].desired = IF target.state THEN "on" ELSE "off",
                                    ![name].consulted = target.consulted]]

\* Faulty variant of after_read: the write goes on with the attempt counter
\* and the waits of the read.
after_read_sharing_retries(p, log, is_on) ==
    LET action == correction(p.target_state, is_on)
        read   == [log EXCEPT ![p.name].read = is_on, ![p.name].read_waits = p.waits]
    IN IF action \in {"on", "off"}
       THEN [pass |-> [p EXCEPT !.pc = "set", !.is_on = is_on,
                                !.turn_on = (action = "on")],
             log |-> [read EXCEPT ![p.name].sets = Append(@, action)]]
       ELSE visit_next(p, read, p.remaining)

\* Faulty variant of after_read: an exhausted read ends the pass, as an
\* exception leaving get_device_state would.
after_read_raising(p, log, is_on) ==
    LET action == correction(p.target_state, is_on)
        read   == [log EXCEPT ![p.name].read = is_on, ![p.name].read_waits = p.waits]
    IN IF is_on = "None"
       THEN [pass |-> [PassIdle EXCEPT !.pc = "returned"], log |-> read]
       ELSE IF action \in {"on", "off"}
       THEN [pass |-> [p EXCEPT !.pc = "set", !.is_on = is_on,
                                !.turn_on = (action = "on"), !.attempt = 0,
                                !.waits = <<>>],
             log |-> [read EXCEPT ![p.name].sets = Append(@, action)]]
       ELSE visit_next(p, read, p.remaining)

\* get_device_state has returned is_on: manage_devices lines 169-175, up to the
\* first await of set_device_state or of the next device's get_device_state.
after_read(p, log, is_on) ==
    LET action == correction(p.target_state, is_on)
        read   == [log EXCEPT ![p.name].read = is_on, ![p.name].read_waits = p.waits]
    IN IF action \in {"on", "off"}
       THEN [pass |-> [p EXCEPT !.pc = "set", !.is_on = is_on,
                                !.turn_on = (action = "on"), !.attempt = 0,
                                !.waits = <<>>],
             log |-> [read EXCEPT ![p.name].sets = Append(@, action)]]
       ELSE visit_next(p, read, p.remaining)

\* device_control_loop calls manage_devices: lines 148-150 and the loop up to
\* its first await.
PassStart ==
    /\ upd = "sleep"
    /\ pass.pc = "sleep"
    /\ LET snapshot == keys_of(devices, DeviceOrder)
           started  == [PassIdle EXCEPT !.current_time = fromtimestamp(clock)]
           fresh    == fresh_logs(pass_log)
           next     == visit_next(started, fresh,
                           [k \in 1..Len(snapshot) |-> <<snapshot[k], devices[snapshot[k]]>>])
       IN pass' = next.pass /\ pass_log' = next.log
    /\ UNCHANGED <<tz, seg_vars, clock, plug_on, config_vars, refresh_vars>>

\* An attempt of get_device_state reaches the plug (lines 107-110).
GetSucceeds ==
    /\ upd = "sleep"
    /\ pass.pc = "get"
    /\ LET next == after_read(pass, pass_log, IF plug_on[pass.ip] THEN "True" ELSE "False")
       IN pass' = next.pass /\ pass_log' = next.log
    /\ UNCHANGED <<tz, seg_vars, clock, plug_on, config_vars, refresh_vars>>

\* An attempt of get_device_state raises (lines 111-119): back off before the
\* next attempt, or return None after the last one.
GetFails ==
    /\ upd = "sleep"
    /\ pass.pc = "get"
    /\ LET failed == [pass_log EXCEPT ![pass.name].failed = @ + 1]
           next   == IF pass.attempt < max_retries - 1
                     THEN [pass |-> [pass EXCEPT !.pc = "get_backoff",
                                                 !.waits = Append(@, wait_time(pass.attempt))],
                           log |-> failed]
                     ELSE after_read(pass, failed, "None")
       IN pass' = next.pass /\ pass_log' = next.log
    /\ UNCHANGED <<tz, seg_vars, clock, plug_on, config_vars, refresh_vars>>

\* The backoff of get_device_state is over: the next attempt.
GetRetry ==
    /\ upd = "sleep"
    /\ pass.pc = "get_backoff"
    /\ pass' = [pass EXCEPT !.pc = "get", !.attempt = @ + 1]
    /\ UNCHANGED <<tz, seg_vars, clock, plug_on, config_vars, refresh_vars, pass_log>>

\* An attempt of set_device_state reaches the plug (lines 128-134).
SetSucceeds ==
    /\ upd = "sleep"
    /\ pass.pc = "set"
    /\ plug_on' = [plug_on EXCEPT ![pass.ip] = pass.turn_on]
    /\ LET next == visit_next(pass, after_write(pass, pass_log, "True"), pass.remaining)
       IN pass' = next.pass /\ pass_log' = next.log
    /\ UNCHANGED <<tz, seg_vars, clock, config_vars, refresh_vars>>

\* An attempt of set_device_state raises (lines 135-143): back off before the
\* next attempt, or return False after the last one.
SetFails ==
    /\ upd = "sleep"
    /\ pass.pc = "set"
    /\ LET next == IF pass.attempt < max_retries - 1
                   THEN [pass |-> [pass EXCEPT !.pc = "set_backoff",
                                               !.waits = Append(@, wait_time(pass.attempt))],
                         log |-> pass_log]
                   ELSE visit_next(pass, after_write(pass, pass_log, "False"),
                                   pass.remaining)
       IN pass' = next.pass /\ pass_log' = next.log
    /\ UNCHANGED <<tz, seg_vars, clock, plug_on, config_vars, refresh_vars>>

\* The backoff of set_device_state is over: the next attempt.
SetRetry ==
    /\ upd = "sleep"
    /\ pass.pc = "set_backoff"
    /\ pass' = [pass EXCEPT !.pc = "set", !.attempt = @ + 1]
    /\ UNCHANGED <<tz, seg_vars, clock, plug_on, config_vars, refresh_vars, pass_log>>

\* update_prices is called and fetch_electricity_prices raises: the response
\* is no JSON object, or an entry of it has no price or a null one (lines
\* 31-33), which `except requests.exceptions.RequestException` does not
\* catch.  update_prices has no handler and neither have its callers, main
\* (line 235) and price_update_loop (line 180), whose exception ends
\* asyncio.gather (lines 238-241) and with it main: the process terminates,
\* and its coroutines with it.
RefreshFetchRaises ==
    /\ refresh_can_run
    /\ upd' = "terminated"
    /\ pass' = [PassIdle EXCEPT !.pc = "off"]
    /\ pass_log' = <<>>
    /\ UNCHANGED <<tz, seg_vars, clock, plug_on, config_vars, price_timeframes,
                   last_prices, threshold_log, refresh_log>>

\* manage_devices has returned: device_control_loop sleeps for a minute.
PassSleeps ==
    /\ pass.pc = "returned"
    /\ pass' = PassIdle
    /\ pass_log' = <<>>
    /\ UNCHANGED <<tz, seg_vars, clock, plug_on, config_vars, refresh_vars>>

\* The same step, with the record of the pass kept for the next one.
PassSleepsRecorded ==
    /\ pass.pc = "returned"
    /\ pass' = PassIdle
    /\ pass_log' = kept_of(pass_log)
    /\ UNCHANGED <<tz, seg_vars, clock, plug_on, config_vars, refresh_vars>>

\* Time passes while device_control_loop sleeps.
Tick ==
    /\ upd = "sleep"
    /\ pass.pc = "sleep"
    /\ clock < MaxClock * SamplingMinutes
    /\ clock' = clock + SamplingMinutes
    /\ UNCHANGED <<tz, seg_vars, plug_on, config_vars, refresh_vars, pass_vars>>

\* ------------------------------------------------ web_app.py, the web layer

\* No coroutine submitted by the web layer is pending.
WebPassIdle == [PassIdle EXCEPT !.pc = "idle"]

\* update_prices is not running.
JobIdle == [pc |-> "idle", remaining |-> <<>>, prices |-> <<>>,
            median |-> [num |-> 0, den |-> 1], before |-> <<>>]

\* No get_status is running and none has returned.
StatusIdle == [remaining |-> <<>>, timeframes |-> <<>>]

\* The dictionary d after d[key] = value.
assigned(d, key, value) ==
    [k \in DOMAIN d \cup {key} |-> IF k = key THEN value ELSE d[k]]

\* d.get(key, []).
get_or_empty(d, key) == IF key \in DOMAIN d THEN d[key] ELSE <<>>

\* The pair (address, forced state) of every configured device.
pairs_of(d, forced) ==
    [name \in DOMAIN d |->
        {[ip |-> d[name],
          forced |-> IF name \in DOMAIN forced THEN forced[name] ELSE "None"]}]

\* The history, with the pair name has now.
recorded(history, name, ip, forced) ==
    assigned(history, name,
             (IF name \in DOMAIN history THEN history[name] ELSE {})
                 \cup {[ip |-> ip, forced |-> forced]})

\* The web layer is not in use.
WebOff ==
    /\ web_pass = WebPassIdle
    /\ requests = 0
    /\ job = JobIdle
    /\ status = StatusIdle

\* POST /api/devices/<name>/force with state on, off or auto, for a
\* configured device (force_device_state, lines 258-286): the forced state is
\* set and manage_devices is submitted to the event loop.
ForceDeviceState ==
    /\ requests < MaxRequests
    /\ web_pass.pc = "idle"
    /\ \E name \in DOMAIN devices, state \in OptionalBool :
          /\ forced_states' = [n \in DOMAIN forced_states \cup {name} |->
                                  IF n = name THEN state ELSE forced_states[n]]
          /\ config_history' = recorded(config_history, name, devices[name], state)
    /\ web_pass' = [WebPassIdle EXCEPT !.pc = "submitted"]
    /\ requests' = requests + 1
    /\ UNCHANGED <<tz, seg_vars, clock, plug_on, devices, device_thresholds, job, status,
                   refresh_vars, pass_vars>>

\* PUT /api/devices/<name> with an address and no threshold, for a configured
\* device (update_device, lines 176-237): the address is replaced and nothing
\* is submitted, the threshold being unchanged.
UpdateDeviceIp ==
    /\ requests < MaxRequests
    /\ \E name \in DOMAIN devices, new_ip \in Ips :
          /\ devices' = [devices EXCEPT ![name] = new_ip]
          /\ config_history' =
                recorded(config_history, name, new_ip,
                         IF name \in DOMAIN forced_states THEN forced_states[name] ELSE "None")
    /\ requests' = requests + 1
    /\ UNCHANGED <<tz, seg_vars, clock, plug_on, device_thresholds, forced_states,
                   web_pass, job, status, refresh_vars, pass_vars>>

\* The dictionary d after del d[key], for a key that may be absent.
deleted(d, key) == [k \in DOMAIN d \ {key} |-> d[k]]

\* Faulty variant of DeleteDevice: the forced state of the device stays.
DeleteDeviceKeepingOverride ==
    /\ requests < MaxRequests
    /\ \E name \in DOMAIN devices :
          /\ devices' = [k \in DOMAIN devices \ {name} |-> devices[k]]
          /\ device_thresholds' =
                [k \in DOMAIN device_thresholds \ {name} |-> device_thresholds[k]]
    /\ requests' = requests + 1
    /\ UNCHANGED <<tz, seg_vars, clock, plug_on, forced_states, web_pass, config_history,
                   job, status, refresh_vars, pass_vars>>

\* DELETE /api/devices/<name> for a configured device (delete_device, lines
\* 240-255): the device leaves the three dictionaries and nothing is
\* submitted.
DeleteDevice ==
    /\ requests < MaxRequests
    /\ \E name \in DOMAIN devices :
          /\ devices' = deleted(devices, name)
          /\ device_thresholds' = deleted(device_thresholds, name)
          /\ forced_states' = deleted(forced_states, name)
    /\ requests' = requests + 1
    /\ UNCHANGED <<tz, seg_vars, clock, plug_on, web_pass, config_history, job, status,
                   refresh_vars, pass_vars>>

\* The event loop starts the submitted manage_devices: lines 148-150 and the
\* loop up to its first await.
TriggeredStart ==
    /\ upd = "sleep"
    /\ web_pass.pc \in {"submitted", "refreshed", "refresh_failed"}
    /\ LET snapshot == keys_of(devices, DeviceOrder)
           started  == [PassIdle EXCEPT !.current_time = fromtimestamp(clock)]
       IN web_pass' = visit_next(started, fresh_logs(<<>>),
                         [k \in 1..Len(snapshot) |-> <<snapshot[k], devices[snapshot[k]]>>]).pass
    /\ UNCHANGED <<tz, seg_vars, clock, plug_on, devices, device_thresholds, forced_states,
                   requests, config_history, job, status, refresh_vars, pass_vars>>

\* The submitted manage_devices reads the plug it is at, the plug answering
\* at the first attempt (lines 167-175).
TriggeredGetSucceeds ==
    /\ web_pass.pc = "get"
    /\ web_pass' = after_read(web_pass, fresh_logs(<<>>),
                              IF plug_on[web_pass.ip] THEN "True" ELSE "False").pass
    /\ UNCHANGED <<tz, seg_vars, clock, plug_on, devices, device_thresholds, forced_states,
                   requests, config_history, job, status, refresh_vars, pass_vars>>

\* The submitted manage_devices switches the plug it is at, the plug
\* answering at the first attempt (lines 172-175).
TriggeredSetSucceeds ==
    /\ web_pass.pc = "set"
    /\ plug_on' = [plug_on EXCEPT ![web_pass.ip] = web_pass.turn_on]
    /\ web_pass' = visit_next(web_pass, fresh_logs(<<>>), web_pass.remaining).pass
    /\ UNCHANGED <<tz, seg_vars, clock, devices, device_thresholds, forced_states,
                   requests, config_history, job, status, refresh_vars, pass_vars>>

\* The submitted manage_devices returns.
TriggeredReturns ==
    /\ web_pass.pc = "returned"
    /\ web_pass' = WebPassIdle
    /\ UNCHANGED <<tz, seg_vars, clock, plug_on, devices, device_thresholds, forced_states,
                   requests, config_history, job, status, refresh_vars, pass_vars>>

\* ------------------------------------- web_app.py, changes of configuration

\* What a request may carry as threshold_type (absent: the key is missing)
\* and as threshold_value (a number, a text that is no number, or absent).
RequestTypes == {"absent", "multiplier", "fixed", "bogus"}

RequestValues ==
    {[kind |-> "absent", num |-> 0, den |-> 1],
     [kind |-> "text", num |-> 0, den |-> 1],
     [kind |-> "number", num |-> 0, den |-> 1],
     [kind |-> "number", num |-> 8, den |-> 1],
     [kind |-> "number", num |-> 3, den |-> 2]}

\* float(threshold_value) raises, or the value is not positive (add_device
\* lines 132-139, update_device lines 212-223).
bad_value(v) == v.kind = "text" \/ (v.kind = "number" /\ v.num <= 0)

\* add_device lines 111-163: the response and the three dictionaries after
\* the request, connection_ok being the result of the connection test.
add_device(name, ip, threshold_type, threshold_value, connection_ok) ==
    LET type  == IF threshold_type = "absent" THEN "multiplier" ELSE threshold_type
        value == IF threshold_value.kind = "absent"
                 THEN DEFAULT_THRESHOLD_MULTIPLIER
                 ELSE [num |-> threshold_value.num, den |-> threshold_value.den]
    IN IF \/ name = "" \/ ip = ""
          \/ name \in DOMAIN devices
          \/ type \notin {"multiplier", "fixed"}
          \/ bad_value(threshold_value)
          \/ ~connection_ok
       THEN [code |-> 400, devices |-> devices, device_thresholds |-> device_thresholds,
             forced_states |-> forced_states, triggers |-> FALSE]
       ELSE [code |-> 200,
             devices |-> assigned(devices, name, ip),
             device_thresholds |->
                 assigned(device_thresholds, name, [type |-> type, value |-> value]),
             forced_states |-> assigned(forced_states, name, "None"),
             triggers |-> TRUE]

\* update_device lines 178-237: the response and the dictionaries after the
\* request.  The address is stored before the threshold is looked at (lines
\* 189-191); current_config is the dictionary held in device_thresholds, so
\* the type stored in it at line 209 is stored in device_thresholds before the
\* value is looked at.
update_device(name, new_ip, new_threshold_type, new_threshold_value) ==
    IF name \notin DOMAIN devices
    THEN [code |-> 404, devices |-> devices, device_thresholds |-> device_thresholds,
          forced_states |-> forced_states, triggers |-> FALSE]
    ELSE
    LET with_ip      == IF new_ip # "" THEN [devices EXCEPT ![name] = new_ip] ELSE devices
        held         == name \in DOMAIN device_thresholds
        with_type    == IF new_threshold_type = "absent"
                        THEN threshold_config_of(name)
                        ELSE [threshold_config_of(name) EXCEPT !.type = new_threshold_type]
        type_stored  == IF held
                        THEN [device_thresholds EXCEPT ![name] = with_type]
                        ELSE device_thresholds
        with_value   == IF new_threshold_value.kind = "absent"
                        THEN with_type
                        ELSE [with_type EXCEPT !.value = [num |-> new_threshold_value.num,
                                                         den |-> new_threshold_value.den]]
    IN IF new_threshold_type = "absent" /\ new_threshold_value.kind = "absent"
       THEN [code |-> 200, devices |-> with_ip, device_thresholds |-> device_thresholds,
             forced_states |-> forced_states, triggers |-> FALSE]
       ELSE IF new_threshold_type = "bogus"
       THEN [code |-> 400, devices |-> with_ip, device_thresholds |-> device_thresholds,
             forced_states |-> forced_states, triggers |-> FALSE]
       ELSE IF bad_value(new_threshold_value)
       THEN [code |-> 400, devices |-> with_ip, device_thresholds |-> type_stored,
             forced_states |-> forced_states, triggers |-> FALSE]
       ELSE [code |-> 200, devices |-> with_ip,
             device_thresholds |-> assigned(device_thresholds, name, with_value),
             forced_states |-> forced_states, triggers |-> TRUE]

\* The dictionaries become those of a response, the addresses that changed
\* are put on record, and update_prices followed by manage_devices is
\* submitted to the event loop if the handler triggers them.
responded(response) ==
    /\ devices' = response.devices
    /\ device_thresholds' = response.device_thresholds
    /\ forced_states' = response.forced_states
    /\ config_history' =
          [name \in DOMAIN config_history \cup DOMAIN response.devices |->
              (IF name \in DOMAIN config_history THEN config_history[name] ELSE {})
              \cup (IF name \in DOMAIN response.devices
                    THEN {[ip |-> response.devices[name],
                           forced |-> IF name \in DOMAIN response.forced_states
                                      THEN response.forced_states[name] ELSE "None"]}
                    ELSE {})]
    /\ web_pass' = IF response.triggers
                   THEN [WebPassIdle EXCEPT !.pc = "refresh_submitted"]
                   ELSE web_pass
    /\ requests' = requests + 1
    /\ UNCHANGED <<tz, seg_vars, clock, plug_on, job, status, refresh_vars, pass_vars>>

\* POST /api/devices.
AddDevice ==
    /\ requests < MaxRequests
    /\ web_pass.pc = "idle"
    /\ \E name \in Names \cup {""}, has_ip, connection_ok \in BOOLEAN,
          threshold_type \in RequestTypes, threshold_value \in RequestValues :
          responded(add_device(name, IF has_ip /\ name # "" THEN IpOf(name) ELSE "",
                               threshold_type, threshold_value, connection_ok))

\* PUT /api/devices/<name>.
UpdateDeviceRequest ==
    /\ requests < MaxRequests
    /\ web_pass.pc = "idle"
    /\ \E name \in Names, new_ip \in Ips \cup {""},
          new_threshold_type \in RequestTypes, new_threshold_value \in RequestValues :
          responded(update_device(name, new_ip, new_threshold_type, new_threshold_value))

\* POST /api/devices/<name>/force for a name that is not configured or with
\* a state that is none of on, off and auto (force_device_state lines
\* 260-262 and 275-277): nothing changes.
ForceDeviceStateRejected ==
    /\ requests < MaxRequests
    /\ \E name \in Names, state \in {"on", "bogus"} :
          name \notin DOMAIN devices \/ state = "bogus"
    /\ requests' = requests + 1
    /\ UNCHANGED <<tz, seg_vars, clock, plug_on, devices, device_thresholds, forced_states,
                   web_pass, config_history, job, status, refresh_vars, pass_vars>>

\* The event loop runs the submitted update_prices, whole (it has no await),
\* before the manage_devices submitted after it: the fetch gives a series.
TriggeredRefreshFetched ==
    /\ upd = "sleep"
    /\ web_pass.pc = "refresh_submitted"
    /\ \E fetched \in SeriesOver(FeedSlots, FeedPrices) \ {<<>>} :
          LET median_price == median([k \in 1..Len(fetched) |-> fetched[k].price])
          IN /\ last_prices' = fetched
             /\ price_timeframes' = timeframes_for(fetched, median_price)
             /\ threshold_log' =
                   [device_name \in DOMAIN devices |->
                       [config    |-> threshold_config_of(device_name),
                        median    |-> median_price,
                        threshold |-> calculate_threshold_price(device_name, median_price)]]
    /\ web_pass' = [web_pass EXCEPT !.pc = "refreshed"]
    /\ UNCHANGED <<tz, seg_vars, clock, plug_on, devices, device_thresholds, forced_states,
                   requests, config_history, job, status, upd, refresh_log, pass_vars>>

\* The same, the fetch giving nothing (lines 73-74).
TriggeredRefreshFailed ==
    /\ upd = "sleep"
    /\ web_pass.pc = "refresh_submitted"
    /\ web_pass' = [web_pass EXCEPT !.pc = "refresh_failed"]
    /\ UNCHANGED <<tz, seg_vars, clock, plug_on, devices, device_thresholds, forced_states,
                   requests, config_history, job, status, refresh_vars, pass_vars>>

\* ----------------------- update_prices as the web server's thread sees it

\* update_prices runs up to the loop over the devices (lines 44-57) on a
\* fetched series: last_prices is replaced and price_timeframes is bound to
\* an empty dictionary.
UpdateFetches ==
    /\ refresh_can_run
    /\ job.pc = "idle"
    /\ \E fetched \in SeriesOver(FeedSlots, FeedPrices) \ {<<>>} :
          /\ last_prices' = fetched
          /\ job' = [pc        |-> "loop",
                     remaining |-> keys_of(devices, DeviceOrder),
                     prices    |-> fetched,
                     median    |-> median([k \in 1..Len(fetched) |-> fetched[k].price]),
                     before    |-> price_timeframes]
    /\ price_timeframes' = <<>>
    /\ threshold_log' = <<>>
    /\ UNCHANGED <<tz, seg_vars, clock, plug_on, devices, device_thresholds, forced_states,
                   web_pass, requests, config_history, status, upd, refresh_log, pass_vars>>

\* One iteration of the loop (lines 57-62): the windows of one device are
\* computed and stored.
UpdateDevice ==
    /\ job.pc = "loop"
    /\ job.remaining # <<>>
    /\ LET device_name     == Head(job.remaining)
           device_threshold  == calculate_threshold_price(device_name, job.median)
       IN /\ price_timeframes' =
                assigned(price_timeframes, device_name,
                         efficient_timeframes(job.prices, device_threshold, 0))
          /\ threshold_log' =
                assigned(threshold_log, device_name,
                         [config    |-> threshold_config_of(device_name),
                          median    |-> job.median,
                          threshold |-> device_threshold])
    /\ job' = [job EXCEPT !.remaining = Tail(@)]
    /\ UNCHANGED <<tz, seg_vars, clock, plug_on, devices, device_thresholds, forced_states,
                   web_pass, requests, config_history, status, last_prices, upd,
                   refresh_log, pass_vars>>

\* The loop is over and update_prices returns.
UpdateReturns ==
    /\ job.pc = "loop"
    /\ job.remaining = <<>>
    /\ job' = JobIdle
    /\ upd' = upd_returned
    /\ UNCHANGED <<tz, seg_vars, clock, plug_on, devices, device_thresholds, forced_states,
                   web_pass, requests, config_history, status, price_timeframes,
                   last_prices, threshold_log, refresh_log, pass_vars>>

\* GET /api/status arrives (get_status, lines 299-308).
StatusBegins ==
    /\ requests < MaxRequests
    /\ status.remaining = <<>>
    /\ status' = [remaining |-> keys_of(devices, DeviceOrder), timeframes |-> <<>>]
    /\ requests' = requests + 1
    /\ UNCHANGED <<tz, seg_vars, clock, plug_on, devices, device_thresholds, forced_states,
                   web_pass, config_history, job, refresh_vars, pass_vars>>

\* get_status reads the forced state, the desired state and the windows of
\* one device (lines 309-346), in the web server's thread.  Kept with what it read: the windows the device had when
\* the running update_prices began and those it has when it returns.
StatusReads ==
    /\ status.remaining # <<>>
    /\ LET name == Head(status.remaining)
           read == get_or_empty(price_timeframes, name)
       IN status' =
            [remaining  |-> Tail(status.remaining),
             timeframes |->
                assigned(status.timeframes, name,
                    [forced_state |-> IF name \in DOMAIN forced_states
                                      THEN forced_states[name] ELSE "None",
                     current_time |-> fromtimestamp(clock),
                     should_be_on |->
                         should_be_on_for_device(name, fromtimestamp(clock)),
                     windows |-> read,
                     before  |-> IF job.pc = "loop"
                                 THEN get_or_empty(job.before, name)
                                 ELSE read,
                     after   |-> IF job.pc = "loop"
                                 THEN efficient_timeframes(job.prices,
                                          calculate_threshold_price(name, job.median), 0)
                                 ELSE read])]
    /\ UNCHANGED <<tz, seg_vars, clock, plug_on, devices, device_thresholds, forced_states,
                   web_pass, requests, config_history, job, refresh_vars, pass_vars>>

\* ------------------------------------------------------------ specifications

\* efficient_timeframes is not being applied.
SegOff ==
    /\ prices = <<>>
    /\ threshold_price = [num |-> 0, den |-> 1]
    /\ min_duration_minutes = 0
    /\ all_timeframes = <<>>
    /\ seg_pc = "off"

\* The configurations load_config may leave: every device has an address, a
\* threshold configuration and a forced state.
Init ==
    /\ tz \in TimeZones
    /\ SegOff
    /\ clock = 0
    /\ \E configured \in SUBSET Names :
          /\ devices = [name \in configured |-> IpOf(name)]
          /\ device_thresholds \in [configured -> ThresholdConfigs]
          /\ forced_states \in [configured -> OptionalBool]
          /\ config_history = pairs_of(devices, forced_states)
          /\ plug_on \in [Ips -> BOOLEAN]
          /\ \A name \in Names \ configured : ~plug_on[IpOf(name)]
    /\ price_timeframes = <<>>
    /\ last_prices = <<>>
    /\ threshold_log = <<>>
    /\ refresh_log = "no call"
    /\ upd = "main"
    /\ pass = PassIdle
    /\ pass_log = <<>>
    /\ WebOff

Next ==
    \/ RefreshFetchFailed
    \/ RefreshFetchRaises
    \/ RefreshFetched
    \/ PassStart
    \/ GetSucceeds
    \/ GetFails
    \/ GetRetry
    \/ SetSucceeds
    \/ SetFails
    \/ SetRetry
    \/ PassSleeps
    \/ Tick

Spec == Init /\ [][Next]_vars

\* device_control_loop followed from pass to pass at one instant of the
\* clock, with the record of each pass kept for the next.
ControlNext ==
    \/ RefreshFetchFailed
    \/ RefreshFetchRaises
    \/ RefreshFetched
    \/ PassStart
    \/ GetSucceeds
    \/ GetFails
    \/ GetRetry
    \/ SetSucceeds
    \/ SetFails
    \/ SetRetry
    \/ PassSleepsRecorded

ControlSpec == Init /\ [][ControlNext]_vars

\* A call of update_prices made by main or by price_update_loop as it starts
\* returns or raises.
StartupRefresh ==
    /\ upd # "sleep"
    /\ RefreshFetchFailed \/ RefreshFetchRaises \/ RefreshFetched

\* An attempt to reach a plug ends, one way or the other.
ReadAttemptEnds == GetSucceeds \/ GetFails

WriteAttemptEnds == SetSucceeds \/ SetFails

\* The event loop runs every coroutine that can go on: the calls made at
\* startup end, asyncio.sleep returns after a backoff and after the minute
\* between two passes, and every attempt to reach a plug ends.
ControlFairness ==
    /\ WF_vars(StartupRefresh)
    /\ WF_vars(PassStart)
    /\ WF_vars(ReadAttemptEnds)
    /\ WF_vars(GetRetry)
    /\ WF_vars(WriteAttemptEnds)
    /\ WF_vars(SetRetry)
    /\ WF_vars(PassSleepsRecorded)

FairControlSpec == ControlSpec /\ ControlFairness

\* The scheduler with the web layer serving requests that force a device
\* and that change its address.
WebNext ==
    \/ RefreshFetched
    \/ PassStart
    \/ GetSucceeds
    \/ GetFails
    \/ GetRetry
    \/ SetSucceeds
    \/ SetFails
    \/ SetRetry
    \/ PassSleeps
    \/ ForceDeviceState
    \/ UpdateDeviceIp
    \/ DeleteDevice
    \/ TriggeredStart
    \/ TriggeredGetSucceeds
    \/ TriggeredSetSucceeds
    \/ TriggeredReturns

\* The web layer is started with both devices configured on the multiplier
\* threshold, none forced, and every plug off.
WebInit ==
    /\ Init
    /\ tz = "utc"
    /\ DOMAIN devices = Names
    /\ \A name \in Names :
          /\ device_thresholds[name].type = "multiplier"
          /\ forced_states[name] = "None"
    /\ \A ip \in Ips : ~plug_on[ip]

WebSpec == WebInit /\ [][WebNext]_vars

\* update_prices followed statement by statement, next to the thread of the
\* web server serving the status.
ExportNext ==
    \/ UpdateFetches
    \/ UpdateDevice
    \/ UpdateReturns
    \/ StatusBegins
    \/ StatusReads

\* Every plug is off: the export of the windows does not depend on the
\* plugs.
ExportInit ==
    /\ Init
    /\ \A ip \in Ips : ~plug_on[ip]

ExportSpec == ExportInit /\ [][ExportNext]_vars

\* The web layer changing the configuration, with the refreshes and the
\* passes it submits, and the refreshes of price_update_loop.
ConfigNext ==
    \/ RefreshFetchFailedLong
    \/ RefreshFetchedLong
    \/ AddDevice
    \/ UpdateDeviceRequest
    \/ DeleteDevice
    \/ ForceDeviceState
    \/ ForceDeviceStateRejected
    \/ TriggeredRefreshFetched
    \/ TriggeredRefreshFailed
    \/ TriggeredStart
    \/ TriggeredGetSucceeds
    \/ TriggeredSetSucceeds
    \/ TriggeredReturns

\* The configuration file is missing or empty, or holds boiler alone, not
\* forced; every plug is off.
ConfigInit ==
    /\ Init
    /\ tz = "utc"
    /\ DOMAIN devices \subseteq {"boiler"}
    /\ \A name \in DOMAIN devices : forced_states[name] = "None"
    /\ \A ip \in Ips : ~plug_on[ip]

ConfigSpec == ConfigInit /\ [][ConfigNext]_vars

\* update_prices on its own, on longer series.
RefreshNext ==
    \/ RefreshFetchFailedLong
    \/ RefreshFetchRaises
    \/ RefreshFetchedLong

RefreshSpec == Init /\ [][RefreshNext]_vars

\* The scheduler is not running: efficient_timeframes is applied on its own.
SchedulerOff ==
    /\ clock = 0
    /\ plug_on = [ip \in Ips |-> FALSE]
    /\ devices = <<>>
    /\ device_thresholds = <<>>
    /\ forced_states = <<>>
    /\ config_history = <<>>
    /\ WebOff
    /\ price_timeframes = <<>>
    /\ last_prices = <<>>
    /\ threshold_log = <<>>
    /\ refresh_log = "no call"
    /\ upd = "off"
    /\ pass = [PassIdle EXCEPT !.pc = "off"]
    /\ pass_log = <<>>

\* ------------------------------------------- efficient_timeframes, applied

SegInit ==
    /\ tz \in TimeZones
    /\ prices \in SeriesOver(MaxSlots, Prices)
    /\ threshold_price \in Thresholds
    /\ min_duration_minutes \in MinDurations
    /\ all_timeframes = <<>>
    /\ seg_pc = "call"
    /\ SchedulerOff

Segment ==
    /\ seg_pc = "call"
    /\ all_timeframes' = efficient_timeframes(prices, threshold_price, min_duration_minutes)
    /\ seg_pc' = "returned"
    /\ UNCHANGED <<tz, prices, threshold_price, min_duration_minutes, clock, plug_on,
                   config_vars, refresh_vars, pass_vars>>

SegNext == Segment

SegSpec == SegInit /\ [][SegNext]_vars

\* --------------------------------------------- claims on efficient_timeframes

\* The call has returned with the minimum-duration filter disabled.
Returned == seg_pc = "returned" /\ min_duration_minutes = 0

\* The local time of sample i of the series handed to efficient_timeframes.
Local(i) == fromtimestamp(prices[i].timestamp)

\* Sample i is priced strictly below the threshold; at the threshold.
Cheap(i) == prices[i].price * threshold_price.den < threshold_price.num

AtThreshold(i) == prices[i].price * threshold_price.den = threshold_price.num

\* The window's half-open range [start, end) holds the instant t.
Within(w, t) == w.start <= t /\ t < w.end

\* The maximal runs <<first, last>> of consecutive cheap samples.
MaximalRuns ==
    {r \in (1..Len(prices)) \X (1..Len(prices)) :
        /\ r[1] <= r[2]
        /\ \A k \in r[1]..r[2] : Cheap(k)
        /\ (r[1] = 1 \/ ~Cheap(r[1] - 1))
        /\ (r[2] = Len(prices) \/ ~Cheap(r[2] + 1))}

\* The k-th maximal run in scan order.
NthRun(k) ==
    CHOOSE r \in MaximalRuns : Cardinality({q \in MaximalRuns : q[1] < r[1]}) = k - 1

RECURSIVE PriceSum(_, _)
PriceSum(a, b) == IF a > b THEN 0 ELSE prices[a].price + PriceSum(a + 1, b)

\* The series of the spec's example: prices [10, 5, 5, 12] at 15-minute
\* spacing from 00:00, threshold 8.
IsExample ==
    /\ Len(prices) = 4
    /\ \A i \in 1..4 : Local(i) = (i - 1) * SamplingMinutes
    /\ <<prices[1].price, prices[2].price, prices[3].price, prices[4].price>> = <<10, 5, 5, 12>>
    /\ threshold_price.num = 8 * threshold_price.den

\* The series has no missing sample: adjacent samples are one sampling
\* interval apart.
Complete ==
    \A i \in 1..(Len(prices) - 1) :
        prices[i + 1].timestamp - prices[i].timestamp = SamplingMinutes

\* C1 (as claimed): for every series sorted by timestamp without duplicate
\* timestamps and every threshold, the returned windows are pairwise disjoint
\* and ascending by start, and the sample timestamps lying in some window are
\* exactly the timestamps of the samples priced below the threshold.  Stated
\* here for the series without a missing sample, on any host.
C1_WindowsPartitionCheapSamples ==
    (Returned /\ Complete) =>
        /\ \A a, b \in 1..Len(all_timeframes) :
              a < b => /\ all_timeframes[a].start < all_timeframes[b].start
                       /\ all_timeframes[a].end <= all_timeframes[b].start
        /\ {Local(i) : i \in {j \in 1..Len(prices) :
                \E k \in 1..Len(all_timeframes) : Within(all_timeframes[k], Local(j))}}
           = {Local(i) : i \in {j \in 1..Len(prices) : Cheap(j)}}

\* C2 (as claimed): every returned window, also for a series with missing
\* samples, has end > start and durationMinutes equal to end - start in
\* minutes.  Stated for a host without a clock change in the horizon, where
\* local time is the timestamp itself.
C2_DurationIsSpan ==
    (seg_pc = "returned" /\ tz = "utc") =>
        \A k \in 1..Len(all_timeframes) :
            /\ all_timeframes[k].end > all_timeframes[k].start
            /\ all_timeframes[k].duration = all_timeframes[k].end - all_timeframes[k].start

\* C3 (as claimed): a gap ends a window: no returned window holds two adjacent
\* samples that are more than one sampling interval apart, and a window with a
\* cheap sample before the gap ends one sampling interval after that sample.
\* Stated for a host without a clock change in the horizon.
C3_GapEndsWindow ==
    (Returned /\ tz = "utc") =>
        \A i \in 1..(Len(prices) - 1) :
            prices[i + 1].timestamp - prices[i].timestamp > SamplingMinutes =>
                /\ ~\E k \in 1..Len(all_timeframes) :
                        /\ Within(all_timeframes[k], Local(i))
                        /\ Within(all_timeframes[k], Local(i + 1))
                /\ Cheap(i) => \E k \in 1..Len(all_timeframes) :
                        all_timeframes[k].end = Local(i) + SamplingMinutes

\* C4: one window per maximal run of consecutive cheap samples, in scan order,
\* with start = the first sample's time, end = the last sample's time + 15
\* minutes, averagePrice = the mean of the run's prices and durationMinutes =
\* run length x 15; an all-cheap series yields one window, a series without a
\* cheap sample (or empty) none, and the example yields (00:15, 00:45, 5, 30).
C4_OneWindowPerRun ==
    Returned =>
        /\ Len(all_timeframes) = Cardinality(MaximalRuns)
        /\ \A k \in 1..Len(all_timeframes) :
              LET r == NthRun(k)
                  w == all_timeframes[k]
                  n == r[2] - r[1] + 1
              IN /\ w.start = Local(r[1])
                 /\ w.end = Local(r[2]) + 15
                 /\ w.avg.den > 0
                 /\ w.avg.num * n = PriceSum(r[1], r[2]) * w.avg.den
                 /\ w.duration = n * 15
        /\ (prices # <<>> /\ \A i \in 1..Len(prices) : Cheap(i)) => Len(all_timeframes) = 1
        /\ (\A i \in 1..Len(prices) : ~Cheap(i)) => all_timeframes = <<>>
        /\ IsExample =>
              /\ Len(all_timeframes) = 1
              /\ all_timeframes[1].start = 15
              /\ all_timeframes[1].end = 45
              /\ all_timeframes[1].avg.num = 5 * all_timeframes[1].avg.den
              /\ all_timeframes[1].duration = 30

\* The example series has been segmented into its single window.
C4_Witness == Returned /\ IsExample /\ Len(all_timeframes) = 1

\* C5: a sample priced exactly at the threshold is not cheap: it is in no
\* window and separates the samples before it from those after it (the result
\* is the windows of the part before it followed by the windows of the part
\* after it); a run of exactly one cheap sample yields a 15-minute window.
C5_ThresholdIsNotCheap ==
    Returned =>
        /\ \A i \in 1..Len(prices) :
              AtThreshold(i) =>
                  all_timeframes =
                      efficient_timeframes(SubSeq(prices, 1, i - 1), threshold_price, 0)
                      \o efficient_timeframes(SubSeq(prices, i + 1, Len(prices)), threshold_price, 0)
        /\ Len(all_timeframes) = Cardinality(MaximalRuns)
        /\ \A k \in 1..Len(all_timeframes) :
              NthRun(k)[1] = NthRun(k)[2] => all_timeframes[k].duration = 15

\* A sample at the threshold lies between two cheap samples, which end up in
\* two windows of one sampling interval each.
C5_Witness ==
    /\ Returned
    /\ Len(prices) = 3
    /\ Cheap(1) /\ AtThreshold(2) /\ Cheap(3)
    /\ Len(all_timeframes) = 2
    /\ all_timeframes[1].duration = 15
    /\ all_timeframes[2].duration = 15

\* The window lasts at least the minimum duration asked for.
LongEnough(w) == w.duration >= min_duration_minutes

\* C23: with min_duration_minutes = m, efficient_timeframes returns exactly
\* the windows of the unfiltered result (m = 0) that last at least m minutes,
\* in the same order and with the same fields; with m = 0 no run is dropped.
C23_MinimumDurationFilters ==
    seg_pc = "returned" =>
        /\ all_timeframes =
              SelectSeq(efficient_timeframes(prices, threshold_price, 0), LongEnough)
        /\ min_duration_minutes = 0 => Len(all_timeframes) = Cardinality(MaximalRuns)

\* A call with a minimum of 30 minutes that dropped a run of one sample and
\* kept a run of exactly 30 minutes after it.
C23_Witness ==
    /\ seg_pc = "returned"
    /\ min_duration_minutes = 30
    /\ Cardinality(MaximalRuns) = 2
    /\ Len(all_timeframes) = 1
    /\ all_timeframes[1].duration = 30
    /\ prices[1].price * threshold_price.den < threshold_price.num

\* ----------------------------------------------------- claims on the refresh

\* The k-th smallest of the prices of the last fetched series.
RankedPrice(k) ==
    CHOOSE x \in {last_prices[i].price : i \in 1..Len(last_prices)} :
        /\ Cardinality({i \in 1..Len(last_prices) : last_prices[i].price < x}) < k
        /\ Cardinality({i \in 1..Len(last_prices) : last_prices[i].price <= x}) >= k

\* The median of the prices of the last fetched series: the middle value, or
\* the average of the two middle values.
MedianOfLastPrices ==
    LET n == Len(last_prices)
    IN IF n % 2 = 1
       THEN [num |-> RankedPrice((n + 1) \div 2), den |-> 1]
       ELSE [num |-> RankedPrice(n \div 2) + RankedPrice((n \div 2) + 1), den |-> 2]

\* Fractions a and b are the same number; a is the product of b and c.
SameNumber(a, b) == a.num * b.den = b.num * a.den

IsProduct(a, b, c) == a.num * (b.den * c.den) = (b.num * c.num) * a.den

\* C6: the threshold a refresh segments a device's windows with is the
\* configured value for a fixed policy, whatever the series, and factor x
\* median(all fetched prices) for a multiplier policy, the median of an
\* even-length series being the average of its two middle values; multiplier
\* 1.5 with median 10 gives 15.
C6_ThresholdResolved ==
    \A name \in DOMAIN threshold_log :
        LET used == threshold_log[name]
        IN /\ name \in DOMAIN price_timeframes
           /\ price_timeframes[name] = efficient_timeframes(last_prices, used.threshold, 0)
           /\ used.config = device_thresholds[name]
           /\ used.config.type = "fixed" => SameNumber(used.threshold, used.config.value)
           /\ used.config.type = "multiplier" =>
                 /\ IsProduct(used.threshold, used.config.value, MedianOfLastPrices)
                 /\ (SameNumber(used.config.value, [num |-> 15, den |-> 10])
                     /\ SameNumber(MedianOfLastPrices, [num |-> 10, den |-> 1]))
                    => SameNumber(used.threshold, [num |-> 15, den |-> 1])

\* A refresh of an even-length series with median 10 has resolved 15 for a
\* device with multiplier 1.5 and 8 for a device with the fixed threshold 8.
C6_Witness ==
    /\ Len(last_prices) = 2
    /\ SameNumber(MedianOfLastPrices, [num |-> 10, den |-> 1])
    /\ \E a, b \in DOMAIN threshold_log :
          /\ threshold_log[a].config.type = "multiplier"
          /\ SameNumber(threshold_log[a].threshold, [num |-> 15, den |-> 1])
          /\ threshold_log[b].config.type = "fixed"
          /\ SameNumber(threshold_log[b].threshold, [num |-> 8, den |-> 1])

\* ------------------------------------------------ claims on the reconciliation

\* The windows cached for a device (none without an entry).
CachedWindows(name) ==
    IF name \in DOMAIN price_timeframes THEN price_timeframes[name] ELSE <<>>

\* The instant t is favorable for the device: in [start, end) of a cached window.
Favorable(name, t) ==
    \E k \in 1..Len(CachedWindows(name)) : Within(CachedWindows(name)[k], t)

\* The devices of the running pass whose desired state has been computed.
Visited == {name \in DOMAIN pass_log : pass_log[name].desired # "?"}

\* C7: an override takes precedence over the windows: a device forced on
\* (forced state True) has target state on, a device forced off (False) has
\* target state off, and the windows are consulted only for a device whose
\* forced state is None.
C7_OverridePrecedence ==
    \A name \in Visited :
        /\ pass_log[name].forced = "True" =>
              pass_log[name].desired = "on" /\ ~pass_log[name].consulted
        /\ pass_log[name].forced = "False" =>
              pass_log[name].desired = "off" /\ ~pass_log[name].consulted
        /\ pass_log[name].consulted => pass_log[name].forced = "None"

\* In one pass a device forced on is wanted on at an instant outside all its
\* windows, and a device forced off is wanted off at an instant inside one.
C7_Witness ==
    \E a, b \in Visited :
        /\ pass_log[a].forced = "True" /\ pass_log[a].desired = "on"
        /\ ~Favorable(a, pass.current_time)
        /\ pass_log[b].forced = "False" /\ pass_log[b].desired = "off"
        /\ Favorable(b, pass.current_time)

\* The desired state of the device is computed in this step.
Decides(name) ==
    /\ name \in DOMAIN pass_log'
    /\ pass_log'[name].desired # "?"
    /\ (name \in DOMAIN pass_log => pass_log[name].desired = "?")

\* C8: in Auto mode the desired state of a device is true exactly if the
\* current instant of the pass lies in [start, end) of a window cached for the
\* device: not at the end of a window (unless another one starts there), and
\* never for a device without an entry or with an empty list.
C8_AutoFollowsWindows ==
    [][\A name \in Names :
          (Decides(name) /\ pass_log'[name].forced = "None") =>
              /\ pass_log'[name].consulted
              /\ pass_log'[name].desired = "on" <=> Favorable(name, pass'.current_time)]_vars

\* An Auto device is wanted off at the very end of one of its windows, and
\* another Auto device, whose cached list is empty, is wanted off as well.
C8_Witness ==
    /\ pass.pc = "get"
    /\ \E a, b \in Visited :
          /\ pass_log[a].forced = "None" /\ pass_log[a].consulted
          /\ pass_log[a].desired = "off"
          /\ \E k \in 1..Len(CachedWindows(a)) : CachedWindows(a)[k].end = pass.current_time
          /\ pass_log[b].forced = "None" /\ pass_log[b].consulted
          /\ pass_log[b].desired = "off"
          /\ b \in DOMAIN price_timeframes /\ price_timeframes[b] = <<>>

\* C9: when the read of a device's state fails on all max_retries attempts,
\* get_device_state returns None and the pass issues no set-state command to
\* the device, whatever its desired state; None is returned in no other case.
C9_ExhaustedReadSkipsDevice ==
    \A name \in DOMAIN pass_log :
        /\ pass_log[name].failed <= max_retries
        /\ pass_log[name].failed = max_retries <=> pass_log[name].read = "None"
        /\ pass_log[name].read = "None" => pass_log[name].sets = <<>>

\* A pass has returned in which the read of a device wanted on and the read
\* of a device wanted off were both exhausted, and neither was commanded.
C9_Witness ==
    /\ pass.pc = "returned"
    /\ \E a, b \in DOMAIN pass_log :
          /\ pass_log[a].desired = "on" /\ pass_log[a].read = "None"
          /\ pass_log[a].failed = 3 /\ pass_log[a].sets = <<>>
          /\ pass_log[b].desired = "off" /\ pass_log[b].read = "None"
          /\ pass_log[b].failed = 3 /\ pass_log[b].sets = <<>>

\* The state get_device_state returned is the desired state.
ReadIsDesired(name) ==
    \/ pass_log[name].read = "True" /\ pass_log[name].desired = "on"
    \/ pass_log[name].read = "False" /\ pass_log[name].desired = "off"

\* C10: within one pass, for each device: a successful read that differs from
\* the desired state is followed by exactly one set_device_state call, in the
\* direction of the desired state; a read equal to the desired state by none;
\* and no set_device_state call is made without an earlier successful read of
\* the device in the pass.
C10_OneCorrectionPerDevice ==
    \A name \in DOMAIN pass_log :
        /\ Len(pass_log[name].sets) <= 1
        /\ pass_log[name].sets # <<>> => pass_log[name].read \in {"True", "False"}
        /\ pass_log[name].read \in {"True", "False"} =>
              IF ReadIsDesired(name)
              THEN pass_log[name].sets = <<>>
              ELSE pass_log[name].sets = <<pass_log[name].desired>>

\* A pass has returned that switched on a device read off and wanted on, and
\* left alone a device read in its desired state.
C10_Witness ==
    /\ pass.pc = "returned"
    /\ \E a, b \in DOMAIN pass_log :
          /\ pass_log[a].read = "False" /\ pass_log[a].desired = "on"
          /\ pass_log[a].sets = <<"on">>
          /\ plug_on[devices[a]]
          /\ pass_log[b].read \in {"True", "False"} /\ ReadIsDesired(b)
          /\ pass_log[b].sets = <<>>

\* ------------------------------------------------- claims on the retries

\* The waits after failed attempts 0 .. n-1: retry_delay * 2^k seconds after
\* failed attempt k.
Backoffs(n) == [k \in 1..n |-> retry_delay * (2 ^ (k - 1))]

InRead == pass.pc \in {"get", "get_backoff"}

InWrite == pass.pc \in {"set", "set_backoff"}

\* set_device_state returns in this step.
SetReturns ==
    /\ pass.pc = "set"
    /\ pass_log[pass.name].written = "?"
    /\ pass_log'[pass.name].written # "?"

\* C11: get_device_state and set_device_state attempt the operation at most
\* max_retries times and stop at the first success; after failed attempt k
\* they wait retry_delay * 2^k, only before another attempt and never after
\* the last one: two failures and a success give success after waits of 2 s
\* and 4 s, three failures give failure after the same two waits.
C11_RetriesWithBackoff ==
    [][/\ (pass.pc \in {"get", "set"})' =>
              /\ pass'.attempt < max_retries
              /\ pass'.waits = Backoffs(pass'.attempt)
       /\ (pass.pc \in {"get_backoff", "set_backoff"})' =>
              /\ pass'.attempt < max_retries - 1
              /\ pass'.waits = Backoffs(pass'.attempt + 1)
       /\ InRead' =>
              /\ pass_log'[pass'.name].read = "?"
              /\ pass_log'[pass'.name].failed = Len(pass'.waits)
       /\ InWrite' => pass_log'[pass'.name].written = "?"
       /\ \A name \in DOMAIN pass_log' :
              /\ pass_log'[name].read \in {"True", "False"} =>
                    /\ pass_log'[name].failed < max_retries
                    /\ pass_log'[name].read_waits = Backoffs(pass_log'[name].failed)
              /\ pass_log'[name].read = "None" =>
                    /\ pass_log'[name].failed = max_retries
                    /\ pass_log'[name].read_waits = Backoffs(max_retries - 1)
       /\ SetReturns =>
              /\ pass.waits = Backoffs(pass.attempt)
              /\ pass_log'[pass.name].written = "True" =>
                    plug_on'[pass.ip] = pass.turn_on
              /\ pass_log'[pass.name].written = "False" =>
                    /\ pass.attempt = max_retries - 1
                    /\ plug_on' = plug_on]_vars

\* In one pass a read has succeeded on its third attempt after waits of 2 s
\* and 4 s, a read has failed three times after the same two waits, and a
\* write is on its third attempt after waits of 2 s and 4 s.
C11_Witness ==
    /\ pass.pc = "set" /\ pass.attempt = 2 /\ pass.waits = <<2, 4>>
    /\ pass_log[pass.name].read \in {"True", "False"}
    /\ pass_log[pass.name].failed = 2
    /\ pass_log[pass.name].read_waits = <<2, 4>>
    /\ \E b \in DOMAIN pass_log :
          /\ pass_log[b].read = "None" /\ pass_log[b].failed = 3
          /\ pass_log[b].read_waits = <<2, 4>>

\* set_device_state returns False in this step.
SetExhausted == SetReturns /\ pass_log'[pass.name].written = "False"

\* get_device_state returns the state of the plug in this step.
ReadReturns(name) ==
    /\ name \in DOMAIN pass_log /\ name \in DOMAIN pass_log'
    /\ pass_log[name].read = "?"
    /\ pass_log'[name].read \in {"True", "False"}

\* C12: when a set-state command fails on all max_retries attempts,
\* set_device_state returns False, the plug is as it was, manage_devices goes
\* on with the devices that remain and device_control_loop goes to sleep and
\* starts the next pass; that pass starts without any retry state, visits
\* the device again and, having read it in another state than the desired
\* one, issues the correction again, starting at attempt 0 without a wait.
C12_ExhaustedWriteIsRetried ==
    [][/\ SetExhausted =>
              /\ plug_on' = plug_on
              /\ IF still_configured(pass.remaining) = <<>>
                 THEN pass'.pc = "returned"
                 ELSE /\ pass'.pc = "get"
                      /\ pass'.name = Head(still_configured(pass.remaining))[1]
       /\ pass'.pc = "returned" =>
              /\ \A name \in DOMAIN pass_log' : pass_log'[name].read # "?"
              /\ (\E name \in DOMAIN pass_log' : pass_log'[name].written = "False") =>
                    (ENABLED PassSleepsRecorded)'
       /\ (pass.pc = "returned" /\ pass'.pc = "sleep" /\ pass_log' # <<>>) =>
              (ENABLED PassStart)'
       /\ (pass.pc = "sleep" /\ pass'.pc \notin {"sleep", "off"}) =>
              /\ DOMAIN pass_log' = DOMAIN devices
              /\ \A name \in DOMAIN pass_log' :
                    /\ pass_log'[name].failed = 0
                    /\ pass_log'[name].sets = <<>>
                    /\ pass_log'[name].written = "?"
       /\ (\/ pass'.pc = "get" /\ (~InRead \/ pass'.name # pass.name)
           \/ pass'.pc = "set" /\ ~InWrite) =>
              pass'.attempt = 0 /\ pass'.waits = <<>>
       /\ \A name \in Names :
              (ReadReturns(name) /\ pass_log[name].exhausted_before
                    /\ ~ReadIsDesired(name)') =>
                 /\ pass'.pc = "set" /\ pass'.name = name
                 /\ pass'.attempt = 0 /\ pass'.waits = <<>>
                 /\ pass'.turn_on = (pass_log'[name].desired = "on")
                 /\ pass_log'[name].sets = <<pass_log'[name].desired>>]_vars

\* The correction of a device, whose write was exhausted in the pass before,
\* has been issued again and has reached its third attempt.
C12_Witness ==
    /\ pass.pc = "set" /\ pass.attempt = 2
    /\ pass_log[pass.name].exhausted_before
    /\ pass_log[pass.name].sets = <<pass_log[pass.name].desired>>

\* ------------------------------------------- claims on the isolation of devices

\* C13: a failed read or write of one device, exhausted or not, never ends
\* the pass: when manage_devices returns, every configured device of the
\* snapshot has been read, and every device read in another state than the
\* desired one has been commanded.
C13_FailureStaysLocal ==
    pass.pc = "returned" =>
        /\ DOMAIN pass_log = DOMAIN devices
        /\ \A name \in DOMAIN pass_log :
              /\ pass_log[name].desired # "?"
              /\ pass_log[name].read # "?"
              /\ (pass_log[name].read \in {"True", "False"} /\ ~ReadIsDesired(name)) =>
                    /\ pass_log[name].sets = <<pass_log[name].desired>>
                    /\ pass_log[name].written # "?"

\* A pass has returned in which the read of the first device was exhausted,
\* or its write given up, and the second device was read and switched.
C13_Witness ==
    /\ pass.pc = "returned"
    /\ DOMAIN pass_log = Names
    /\ \/ pass_log[DeviceOrder[1]].read = "None"
       \/ pass_log[DeviceOrder[1]].written = "False"
    /\ pass_log[DeviceOrder[2]].read \in {"True", "False"}
    /\ pass_log[DeviceOrder[2]].sets # <<>>
    /\ pass_log[DeviceOrder[2]].written = "True"

\* A step of the scheduler that begins the read of another device than the
\* one the pass is at.
ReadsAnotherDevice ==
    /\ Next
    /\ pass'.pc = "get"
    /\ pass'.name # pass.name

\* C14 (as claimed): a backoff wait suspends only the operation of its own
\* device: while the pass waits between two attempts for one device and
\* another configured device of its snapshot is still to be visited, the
\* pass is able to begin the read of that device.
C14_BackoffSuspendsOnlyItsDevice ==
    (/\ pass.pc \in {"get_backoff", "set_backoff"}
     /\ still_configured(pass.remaining) # <<>>) => ENABLED ReadsAnotherDevice

\* ------------------------------------------------- claims on a failed refresh

\* C15: a refresh that fetches no prices, because the request failed or the
\* series is empty, leaves last_prices and the cached windows of every
\* device as they were; the cache only ever changes to the series fetched
\* and the windows computed from it for every configured device.
C15_FailedRefreshKeepsCache ==
    [][/\ refresh_log' = "nothing" =>
              /\ last_prices' = last_prices
              /\ price_timeframes' = price_timeframes
       /\ (last_prices' # last_prices \/ price_timeframes' # price_timeframes) =>
              /\ last_prices' # <<>>
              /\ DOMAIN price_timeframes' = DOMAIN devices]_vars

\* The last refresh fetched nothing, and the series and the windows cached
\* by an earlier refresh are still there.
C15_Witness ==
    /\ refresh_log = "nothing"
    /\ last_prices # <<>>
    /\ \E name \in DOMAIN price_timeframes : price_timeframes[name] # <<>>

\* ---------------------------------------------- claims on the two loops

\* C19 (as claimed): no failure of a single cycle terminates the process:
\* after any sequence of price-fetch failures and device failures,
\* price_update_loop and device_control_loop are still running.
C19_LoopsKeepRunning == upd # "terminated"

\* The state manage_devices wants for the device now.
Desired(name) ==
    target_state_of(IF name \in DOMAIN forced_states THEN forced_states[name] ELSE "None",
                    name, fromtimestamp(clock)).state

\* Every configured device's plug is in the state wanted for it.
Converged == \A name \in DOMAIN devices : plug_on[devices[name]] = Desired(name)

\* A step in which no attempt to reach a plug fails and nothing that decides
\* the desired states changes.
Calm ==
    /\ ~GetFails
    /\ ~SetFails
    /\ price_timeframes' = price_timeframes
    /\ forced_states' = forced_states
    /\ devices' = devices
    /\ clock' = clock

InFlight(p) == p.pc \in {"get", "get_backoff", "set", "set_backoff"}

\* C17: at most one read+correct sequence is in flight for a device: the pass
\* of device_control_loop and a pass submitted by the web layer are never both
\* between the read and the end of the correction of the same device.
C17_OneSequencePerDevice ==
    ~(InFlight(pass) /\ InFlight(web_pass) /\ pass.name = web_pass.name)

\* C18: the address a pass uses for a device and the forced state it decides
\* with were the device's configuration together at some instant.
C18_ConsistentSnapshot ==
    \A p \in {pass, web_pass} :
        InFlight(p) =>
            [ip |-> p.ip, forced |-> p.forced_state] \in config_history[p.name]

\* C16: the status export never reads an intermediate cache: a device that
\* has windows before a refresh and after it is never read with no windows.
C16_ReadersSeeWholeCache ==
    \A name \in DOMAIN status.timeframes :
        LET seen == status.timeframes[name]
        IN (seen.before # <<>> /\ seen.after # <<>>) => seen.windows # <<>>

\* A step in which the pass p issues a command to a plug: the first attempt
\* or a further attempt of a read or of a write.
Issues(p, q) ==
    /\ q.pc \in {"get", "set"}
    /\ <<q.pc, q.name, q.attempt>> # <<p.pc, p.name, p.attempt>>

\* C24: once a device is removed from web_app.devices, a pass issues no
\* further read and no set-state command for it, also when the device is
\* removed while the pass waits for its read or backs off.
C24_DeletedDeviceIsSkipped ==
    [][/\ Issues(pass, pass') => pass'.name \in DOMAIN devices'
       /\ Issues(web_pass, web_pass') => web_pass'.name \in DOMAIN devices']_vars

\* The desired state manage_devices computes from a forced state and the
\* windows of a device at the local time t.
DesiredFrom(forced_state, windows, t) ==
    IF forced_state # "None"
    THEN forced_state = "True"
    ELSE \E k \in 1..Len(windows) : Within(windows[k], t)

\* C22: the should_be_on the status export reports for a device is the
\* desired state the reconciliation computes at the same instant from the
\* same forced state and the same windows: on for a device forced on outside
\* every window, off for a device forced off inside a window.
C22_StatusReportsDesiredState ==
    \A name \in DOMAIN status.timeframes :
        LET seen == status.timeframes[name]
        IN seen.should_be_on =
              DesiredFrom(seen.forced_state, seen.windows, seen.current_time)

\* ------------------------------------- claims on changes of the configuration

\* The requests update_device may receive.
UpdateRequests == Names \X (Ips \cup {""}) \X RequestTypes \X RequestValues

\* C25: an update_device request rejected with 404 or 400 leaves devices,
\* device_thresholds and forced_states as they were, also when it carried a
\* new address or a valid new threshold type.
C25_RejectedUpdateChangesNothing ==
    \A r \in UpdateRequests :
        LET response == update_device(r[1], r[2], r[3], r[4])
        IN response.code \in {400, 404} =>
              /\ response.devices = devices
              /\ response.device_thresholds = device_thresholds
              /\ response.forced_states = forced_states

\* C26: after any sequence of add_device, update_device, delete_device and
\* force_device_state requests, accepted or rejected, devices,
\* device_thresholds and forced_states have the same keys.
C26_SameKeys ==
    /\ DOMAIN device_thresholds = DOMAIN devices
    /\ DOMAIN forced_states = DOMAIN devices

\* Two requests have been served from the empty configuration: heater was
\* added, then forced on.
C26_Witness ==
    /\ requests = 2
    /\ DOMAIN devices = {"heater"}
    /\ forced_states["heater"] = "True"

\* A step is a refresh that fetched a series: of price_update_loop, or
\* submitted by the web layer.
SuccessfulRefresh ==
    \/ /\ refresh_log' = "prices"
       /\ requests' = requests
       /\ web_pass' = web_pass
    \/ /\ web_pass.pc = "refresh_submitted"
       /\ web_pass'.pc = "refreshed"

\* The windows cached for the device are those of the last series under
\* the device's policy.
WindowsAreCurrent(name) ==
    \A median_price \in {MedianOfLastPrices} :
        \A threshold \in {calculate_threshold_price(name, median_price)} :
            price_timeframes[name] = efficient_timeframes(last_prices, threshold, 0)

\* The cache holds, for the configured devices and for no other name, the
\* windows of the last series under the device's policy.
CacheIsCurrent ==
    /\ last_prices # <<>>
    /\ DOMAIN price_timeframes = DOMAIN devices
    /\ \A name \in DOMAIN devices : WindowsAreCurrent(name)

\* C27: immediately after a refresh that fetched a series, price_timeframes
\* has an entry for every device configured then and for no other name, each
\* computed from the new series with the device's current policy.
C27_RefreshCoversConfiguredDevices ==
    [][SuccessfulRefresh => CacheIsCurrent']_vars

\* boiler was configured and has been deleted, heater is configured, and a
\* refresh since has left windows for heater and no entry for boiler.
C27_Witness ==
    /\ "boiler" \in DOMAIN config_history
    /\ DOMAIN devices = {"heater"}
    /\ DOMAIN price_timeframes = {"heater"}
    /\ price_timeframes["heater"] # <<>>
    /\ CacheIsCurrent

\* Across a step, the device is added; its threshold policy changes.
Added(name) == name \notin DOMAIN devices /\ name \in DOMAIN devices'

PolicyChanged(name) ==
    /\ name \in DOMAIN device_thresholds
    /\ name \in DOMAIN device_thresholds'
    /\ device_thresholds'[name] # device_thresholds[name]

\* C21: a device added or a threshold changed through the web layer submits
\* a refresh followed by a pass; the submitted refresh is over before the
\* submitted pass computes a desired state; after a fetch that succeeded the
\* pass evaluates a device against windows computed with its current policy;
\* a newly added device has no windows until a refresh succeeds.
C21_ChangeTriggersRefreshThenPass ==
    [][/\ (\E name \in Names : Added(name) \/ PolicyChanged(name)) =>
              web_pass'.pc = "refresh_submitted"
       /\ web_pass.pc = "refresh_submitted" =>
              web_pass'.pc \in {"refresh_submitted", "refreshed", "refresh_failed"}
       /\ (web_pass.pc = "refreshed" /\ InFlight(web_pass')) =>
              WindowsAreCurrent(web_pass'.name)
       /\ \A name \in Names :
              Added(name) => get_or_empty(price_timeframes', name) = <<>>
       /\ (web_pass.pc = "refresh_submitted" /\ web_pass'.pc = "refresh_failed") =>
              price_timeframes' = price_timeframes]_vars

====
